---- MODULE Spec2Model ----
(***************************************************************************)
(* Model of lm_eval/api/model.py: the request cache of CachingLM           *)
(* (hash_args, CacheHook, CachingLM.__getattr__.fn) over a persistent      *)
(* key/value store, with the wrapped LM as an opaque backend.              *)
(***************************************************************************)
EXTENDS Integers, Sequences, FiniteSets, TLC

(* ---------------- bounds of the exploration ---------------- *)
MaxBatch == 2        \* longest batch passed to one call
MaxTokens == 10      \* longest token sequence given to the rolling scorer
MaxWindow == 4       \* largest max_window of the rolling scorer
MaxStrLen == 3       \* longest context and continuation given to the encoder

(* ---------------- values ---------------- *)
\* Python's None: the "unfilled" marker of res and a possible stored value.
None == "None"
\* values an earlier run may have left in the store: the store is a file
\* that outlives the process, and line 749 stores whatever the wrapped LM
\* returned, None included
SeedVals == {"x", "y", None}
\* values the wrapped LM may return for one request
LmVals == {"x", "y", None}
\* values the wrapped LM records through its cache hook in Spec, where a
\* stored None already comes from earlier runs and from line 749; SpecLife
\* lets the hook record None as well (RecVals)
HookVals == {"y"}

(* ---------------- requests ---------------- *)
CachedAttrs == {"loglikelihood", "loglikelihood_rolling", "generate_until"}

\* gen_kwargs dictionaries of generate_until requests
Sampling == [k \in {"do_sample"} |-> TRUE]
Greedy == [k \in {"do_sample"} |-> FALSE]

\* Instance.args by request type
ArgsOf(a) ==
  CASE a = "loglikelihood" -> {<<"a", "b">>, <<"a", "c">>}
    [] a = "loglikelihood_rolling" -> {<<"a">>}
    [] a = "generate_until" -> {<<"a", Greedy>>, <<"a", Sampling>>}

\* Instance objects: args is the only field the cache reads
Instance(a) == [args : ArgsOf(a)]

SeqsUpTo(S, n) == UNION {[1..m -> S] : m \in 0..n}

\* dict.get(key, default)
DictGet(d, k, default) == IF k \in DOMAIN d THEN d[k] ELSE default

\* hash_args: sha256 over json.dumps([attr] + list(args)); the digest is
\* taken to be collision free, so the key is the serialised list itself.
hash_args(a, args) == <<a>> \o args

\* every key the requests of the model can produce
Keys == UNION {{hash_args(a, args) : args \in ArgsOf(a)} : a \in CachedAttrs}

\* req.args[1].get("do_sample", False) of a generate_until request
do_sample(req) == DictGet(req.args[2], "do_sample", FALSE)

\* mutant: the sampling test is lost, every request may be read from the cache
NonDeterministicNever(a, req) == FALSE

\* mutant: every request bypasses the cache and is computed again
NonDeterministicAlways(a, req) == TRUE

\* the test of line 714: the request bypasses the cache
NonDeterministic(a, req) == a = "generate_until" /\ do_sample(req)

\* mutant: the advisory is logged at every sampling request
WarnEach(w, tr) == Append(tr, "warning")

\* if not warned: eval_logger.warning(...) (lines 717-720): the events of
\* the call after the test
Warn(w, tr) == IF w THEN tr ELSE Append(tr, "warning")

\* mutant: the membership test always fails, nothing is read from the cache
IsCachedNever(db, hsh) == FALSE

\* hsh in self.dbdict (line 724)
IsCached(db, hsh) == hsh \in DOMAIN db

\* mutant: the assertion is lost, a stored None is read as a result
AssertNotNoneSkipped(ob) == TRUE

\* assert ob is not None (line 727)
AssertNotNone(ob) == ob # None

\* mutant: the assignment replaces the store by the one new entry
DbSetAlone(db, k, v) == [j \in {k} |-> v]

\* dbdict[k] = v
DbSet(db, k, v) == [j \in (DOMAIN db) \cup {k} |-> IF j = k THEN v ELSE db[j]]

\* the slot the inner while loop stops at: first index >= p holding None
\* (0 when the loop would run off the end of res: IndexError)
NextNone(r, p) ==
  IF \E j \in p..Len(r) : r[j] = None
  THEN CHOOSE j \in p..Len(r) : r[j] = None /\ \A i \in p..(j - 1) : r[i] # None
  ELSE 0

VARIABLES
  dbdict,          \* CachingLM.dbdict: the SqliteDict, key -> value
  pc,              \* position of the caller / of fn
  attr,            \* the operation fn was built for
  requests,        \* fn's argument
  res,             \* fn.res
  remaining_reqs,  \* fn.remaining_reqs
  warned,          \* fn.warned
  rem_res,         \* fn.rem_res: what the wrapped LM returned
  resptr,          \* fn.resptr (1-based)
  zipi,            \* pairs of zip(remaining_reqs, rem_res) consumed
  trace,           \* events of the current call, in order
  lm_args,         \* the request lists the wrapped LM was invoked with in this call
  writes,          \* the dbdict[hsh] = r assignments of fn in this call, in order
  hits,            \* indices of requests answered from dbdict in this call
  db0,             \* dbdict when the current call started
  hooked,          \* the wrapped LM used its cache hook during this call
  prev,            \* the call before and its results, kept while the caller
                   \* repeats its batch, when that call was answered from the
                   \* store alone and the wrapped LM recorded nothing during it
  hook_dbdict,     \* lm.cache_hook.dbdict: None, or the store of the CachingLM
  lm_has,          \* the request types the wrapped LM implements
  audit,           \* whether the behaviour keeps the ghost variable last
  last,            \* the latest write to the store and who made it
  roll,            \* the rolling-window scorer: tokens, max_window, windows so far
  fp,              \* the fingerprinter: its two inputs and their digests
  enc              \* the request encoder: its inputs and what it returned

\* what stays as constructed during the calls of one CachingLM
env == <<hook_dbdict, lm_has, audit>>

\* the pure functions, which the facade does not touch
pure == <<roll, fp, enc>>

vars == <<dbdict, pc, attr, requests, res, remaining_reqs, warned, rem_res,
          resptr, zipi, trace, lm_args, writes, hits, db0, hooked, prev,
          env, last, pure>>

NoPrev == [set |-> FALSE, attr |-> "", requests |-> <<>>, res |-> <<>>]

\* no write to the store has been made yet
NoLast == [set |-> FALSE, key |-> <<>>, val |-> None, by |-> "", doc |-> "", old |-> FALSE]

\* the scorer and the fingerprinter at rest
NoRoll == [n |-> 0, max_window |-> 1, predicted |-> 0, windows |-> <<>>]
NoFp == [set |-> FALSE]
NoEnc == [done |-> FALSE]

\* the facade at rest: no call of fn is under way
AtRest ==
  /\ attr = "loglikelihood"
  /\ requests = <<>>
  /\ res = <<>>
  /\ remaining_reqs = <<>>
  /\ warned = FALSE
  /\ rem_res = <<>>
  /\ resptr = 1
  /\ zipi = 0
  /\ trace = <<>>
  /\ lm_args = <<>>
  /\ writes = <<>>
  /\ hits = {}
  /\ db0 = dbdict
  /\ hooked = FALSE
  /\ prev = NoPrev
  /\ last = NoLast

\* the stores an earlier run may have left behind
InitStores == UNION {[K -> SeedVals] : K \in SUBSET Keys}

\* a CachingLM has been constructed around an LM that implements the three
\* request types, on a store an earlier run may have filled (lines 681-696)
Init ==
  /\ dbdict \in InitStores
  /\ pc = "idle"
  /\ AtRest
  /\ hook_dbdict = "dbdict"
  /\ lm_has = CachedAttrs
  /\ audit = FALSE
  /\ roll = NoRoll
  /\ fp = NoFp
  /\ enc = NoEnc

\* CachingLM.<attr>(reqs): fn starts, locals initialised (lines 704-707)
Call(a, reqs) ==
  /\ pc = "idle"
  /\ a \in lm_has
  /\ attr' = a
  /\ requests' = reqs
  /\ res' = <<>>
  /\ remaining_reqs' = <<>>
  /\ warned' = FALSE
  /\ rem_res' = <<>>
  /\ resptr' = 1
  /\ zipi' = 0
  /\ trace' = <<>>
  /\ lm_args' = <<>>
  /\ writes' = <<>>
  /\ hits' = {}
  /\ db0' = dbdict
  /\ hooked' = FALSE
  /\ prev' = IF prev.set /\ prev.attr = a /\ prev.requests = reqs THEN prev ELSE NoPrev
  /\ pc' = "lookup"
  /\ UNCHANGED dbdict
  /\ UNCHANGED <<env, last, pure>>

\* one iteration of the lookup loop (lines 712-732)
Lookup ==
  /\ pc = "lookup"
  /\ Len(res) < Len(requests)
  /\ LET i == Len(res) + 1
         req == requests[i]
         hsh == hash_args(attr, req.args)
     IN IF NonDeterministic(attr, req)
        THEN /\ warned' = TRUE
             /\ trace' = Warn(warned, trace)
             /\ res' = Append(res, None)
             /\ remaining_reqs' = Append(remaining_reqs, req)
             /\ UNCHANGED <<pc, hits>>
        ELSE IF IsCached(dbdict, hsh)
             THEN IF ~AssertNotNone(dbdict[hsh])
                  THEN \* the assertion fails: fn is left by AssertionError
                       /\ pc' = "failed"
                       /\ trace' = Append(trace, "AssertionError")
                       /\ UNCHANGED <<res, remaining_reqs, warned, hits>>
                  ELSE /\ res' = Append(res, dbdict[hsh])
                       /\ hits' = hits \cup {i}
                       /\ UNCHANGED <<pc, remaining_reqs, warned, trace>>
             ELSE /\ res' = Append(res, None)
                  /\ remaining_reqs' = Append(remaining_reqs, req)
                  /\ UNCHANGED <<pc, warned, trace, hits>>
  /\ UNCHANGED <<dbdict, attr, requests, rem_res, resptr, zipi, lm_args,
                 writes, db0, hooked, prev>>
  /\ UNCHANGED <<env, last, pure>>

\* mutant: the wrapped LM is called once per remaining request
InvokeEach(done, reqs) == done \o [i \in 1..Len(reqs) |-> <<reqs[i]>>]

\* mutant: the wrapped LM is called with the whole batch
InvokeAll(done, reqs) == Append(done, requests)

\* the invocations of the wrapped LM after the call of line 737: one call
\* with the whole list of remaining requests
Invoke(done, reqs) == Append(done, reqs)

\* getattr(self.lm, attr)(remaining_reqs) is entered (line 737)
LmCall ==
  /\ pc = "lookup"
  /\ Len(res) = Len(requests)
  /\ pc' = "in_lm"
  /\ trace' = Append(trace, "lm")
  /\ lm_args' = Invoke(lm_args, remaining_reqs)
  /\ UNCHANGED <<dbdict, attr, requests, res, remaining_reqs, warned, rem_res,
                 resptr, zipi, writes, hits, db0, hooked, prev>>
  /\ UNCHANGED <<env, last, pure>>

\* mutant: the hook writes to the store whatever it was built with
add_partial_unguarded(hd, db, a, req, r) == DbSet(db, hash_args(a, req), r)

\* CacheHook.add_partial (lines 673-677): the store after the call, hd being
\* the hook's dbdict field, None for a hook built with no CachingLM
add_partial(hd, db, a, req, r) ==
  IF hd = None THEN db ELSE DbSet(db, hash_args(a, req), r)

\* the LM records a result through its cache hook, while it runs an
\* operation for the facade or while it is used without a CachingLM
AddPartial(a, req, r) ==
  /\ pc \in {"in_lm", "unwrapped"}
  /\ hooked' = TRUE
  /\ dbdict' = add_partial(hook_dbdict, dbdict, a, req, r)
  /\ last' = IF audit /\ hook_dbdict # None
             THEN [set |-> TRUE, key |-> <<a>> \o req, val |-> r, by |-> "hook",
                   doc |-> "", old |-> FALSE]
             ELSE last
  /\ UNCHANGED <<pc, attr, requests, res, remaining_reqs, warned, rem_res,
                 resptr, zipi, trace, lm_args, writes, hits, db0, prev>>
  /\ UNCHANGED <<env, pure>>

\* the wrapped LM returns, as its interface says (lines 49, 91, 111), one
\* result per request it was given (line 737)
LmReturn(r) ==
  /\ pc = "in_lm"
  /\ Len(r) = Len(remaining_reqs)
  /\ rem_res' = r
  /\ resptr' = 1
  /\ zipi' = 0
  /\ pc' = "merge"
  /\ UNCHANGED <<dbdict, attr, requests, res, remaining_reqs, warned,
                 trace, lm_args, writes, hits, db0, hooked, prev>>
  /\ UNCHANGED <<env, last, pure>>

\* mutant: the store is put back as it was when the call started
LmRaiseRollback ==
  /\ pc = "in_lm"
  /\ pc' = "failed"
  /\ trace' = Append(trace, "LmError")
  /\ dbdict' = db0
  /\ UNCHANGED <<attr, requests, res, remaining_reqs, warned, rem_res,
                 resptr, zipi, lm_args, writes, hits, db0, hooked, prev>>
  /\ UNCHANGED <<env, last, pure>>

\* the wrapped LM raises; fn has no handler, the exception reaches the caller
LmRaise ==
  /\ pc = "in_lm"
  /\ pc' = "failed"
  /\ trace' = Append(trace, "LmError")
  /\ UNCHANGED <<dbdict, attr, requests, res, remaining_reqs, warned, rem_res,
                 resptr, zipi, lm_args, writes, hits, db0, hooked, prev>>
  /\ UNCHANGED <<env, last, pure>>

\* pairs zip(remaining_reqs, rem_res) yields
ZipLen == IF Len(remaining_reqs) < Len(rem_res)
          THEN Len(remaining_reqs) ELSE Len(rem_res)

\* one iteration of the merge loop (lines 741-749)
Merge ==
  /\ pc = "merge"
  /\ zipi < ZipLen
  /\ LET req == remaining_reqs[zipi + 1]
         r == rem_res[zipi + 1]
         p == NextNone(res, resptr)
         hsh == hash_args(attr, req.args)
     IN IF p = 0
        THEN /\ pc' = "failed"
             /\ trace' = Append(trace, "IndexError")
             /\ UNCHANGED <<res, resptr, dbdict, zipi, writes, last>>
        ELSE /\ resptr' = p
             /\ res' = [res EXCEPT ![p] = r]
             /\ dbdict' = DbSet(dbdict, hsh, r)
             /\ trace' = Append(trace, "set")
             /\ writes' = Append(writes, [hsh |-> hsh, r |-> r, slot |-> p, req |-> req])
             /\ zipi' = zipi + 1
             /\ pc' = pc
             /\ last' = IF audit
                        THEN [set |-> TRUE, key |-> <<attr>> \o req.args, val |-> r,
                              by |-> "fn", doc |-> req.doc, old |-> FALSE]
                        ELSE last
  /\ UNCHANGED <<attr, requests, remaining_reqs, warned, rem_res, lm_args,
                 hits, db0, hooked, prev>>
  /\ UNCHANGED <<env, pure>>

\* mutant: commit only when something was written
CommitIfWritten ==
  /\ pc = "merge"
  /\ zipi = ZipLen
  /\ pc' = "commit_done"
  /\ trace' = IF writes = <<>> THEN trace ELSE Append(trace, "commit")
  /\ UNCHANGED <<dbdict, attr, requests, res, remaining_reqs, warned, rem_res,
                 resptr, zipi, lm_args, writes, hits, db0, hooked, prev>>
  /\ UNCHANGED <<env, last, pure>>

\* self.dbdict.commit() (line 750)
Commit ==
  /\ pc = "merge"
  /\ zipi = ZipLen
  /\ pc' = "commit_done"
  /\ trace' = Append(trace, "commit")
  /\ UNCHANGED <<dbdict, attr, requests, res, remaining_reqs, warned, rem_res,
                 resptr, zipi, lm_args, writes, hits, db0, hooked, prev>>
  /\ UNCHANGED <<env, last, pure>>

\* return res (line 752)
Return ==
  /\ pc = "commit_done"
  /\ pc' = "returned"
  /\ trace' = Append(trace, "return")
  /\ UNCHANGED <<dbdict, attr, requests, res, remaining_reqs, warned, rem_res,
                 resptr, zipi, lm_args, writes, hits, db0, hooked, prev>>
  /\ UNCHANGED <<env, last, pure>>

\* fn is left, by return or by an exception: its locals are gone and the
\* caller may issue the next batch
Exit ==
  /\ pc \in {"returned", "failed"}
  /\ pc' = "idle"
  /\ attr' = "loglikelihood"
  /\ requests' = <<>>
  /\ res' = <<>>
  /\ remaining_reqs' = <<>>
  /\ warned' = FALSE
  /\ rem_res' = <<>>
  /\ resptr' = 1
  /\ zipi' = 0
  /\ trace' = <<>>
  /\ lm_args' = <<>>
  /\ writes' = <<>>
  /\ hits' = {}
  /\ db0' = dbdict
  /\ hooked' = FALSE
  /\ prev' = IF pc = "returned" /\ remaining_reqs = <<>> /\ ~hooked
              THEN [set |-> TRUE, attr |-> attr, requests |-> requests, res |-> res]
              ELSE NoPrev
  /\ last' = IF last.set THEN [last EXCEPT !.old = TRUE] ELSE last
  /\ UNCHANGED dbdict
  /\ UNCHANGED <<env, pure>>

Next ==
  \/ \E a \in CachedAttrs : \E reqs \in SeqsUpTo(Instance(a), MaxBatch) : Call(a, reqs)
  \/ Lookup
  \/ LmCall
  \/ \E args \in ArgsOf(attr) : \E r \in HookVals : AddPartial(attr, args, r)
  \/ \E r \in SeqsUpTo(LmVals, MaxBatch) : LmReturn(r)
  \/ LmRaise
  \/ Merge
  \/ Commit
  \/ Return
  \/ Exit

Spec == Init /\ [][Next]_vars

(***************************************************************************)
(* The life of one LM: it is constructed with the null cache hook          *)
(* (LM.__init__, lines 22-31), may be used on its own, and is then wrapped *)
(* by a CachingLM whose callers pass full Instance objects.  The wrapped   *)
(* LM of this behaviour does not implement loglikelihood_rolling.          *)
(***************************************************************************)

\* where a request comes from: Instance.doc and Instance.idx
Origins == {[doc |-> "d1", idx |-> 0], [doc |-> "d2", idx |-> 1]}

\* one cacheable payload per request type
CoreArgs(a) ==
  CASE a = "loglikelihood" -> {<<"a", "b">>}
    [] a = "loglikelihood_rolling" -> {<<"a">>}
    [] a = "generate_until" -> {<<"a", Greedy>>}

\* Instance objects with the fields the cache does not read
FullInstance(a) ==
  {[args |-> x, doc |-> o.doc, idx |-> o.idx] : x \in CoreArgs(a), o \in Origins}

\* values the LM may record through its cache hook: what it may return
RecVals == {"y", None}

CoreKeys == UNION {{hash_args(a, args) : args \in CoreArgs(a)} : a \in CachedAttrs}

\* LM.__init__ (lines 22-31): the LM holds CacheHook(None); the store file
\* of an earlier run may exist
InitLife ==
  /\ dbdict \in UNION {[K -> SeedVals] : K \in SUBSET CoreKeys}
  /\ pc = "unwrapped"
  /\ AtRest
  /\ hook_dbdict = None
  /\ lm_has = CachedAttrs \ {"loglikelihood_rolling"}
  /\ audit = TRUE
  /\ roll = NoRoll
  /\ fp = NoFp
  /\ enc = NoEnc

\* CachingLM.__init__ (lines 681-696): the store is opened and the LM is
\* given the hook of this CachingLM
Construct ==
  /\ pc = "unwrapped"
  /\ pc' = "idle"
  /\ hook_dbdict' = "dbdict"
  /\ hooked' = FALSE
  /\ db0' = dbdict
  /\ UNCHANGED <<dbdict, attr, requests, res, remaining_reqs, warned, rem_res,
                 resptr, zipi, trace, lm_args, writes, hits, prev>>
  /\ UNCHANGED <<lm_has, audit, last, pure>>

\* mutant: an operation the LM lacks is skipped, the caller gets no results
GetattrMissingSkipped(a) ==
  /\ pc = "idle"
  /\ a \notin lm_has
  /\ attr' = a
  /\ pc' = "returned"
  /\ UNCHANGED <<dbdict, requests, res, remaining_reqs, warned, rem_res,
                 resptr, zipi, trace, lm_args, writes, hits, db0, hooked, prev>>
  /\ UNCHANGED <<env, last, pure>>

\* CachingLM.<a> for an operation the LM lacks: getattr(self.lm, attr)
\* raises AttributeError before fn is built (line 699)
GetattrMissing(a) ==
  /\ pc = "idle"
  /\ a \notin lm_has
  /\ attr' = a
  /\ pc' = "failed"
  /\ trace' = Append(trace, "AttributeError")
  /\ UNCHANGED <<dbdict, requests, res, remaining_reqs, warned, rem_res,
                 resptr, zipi, lm_args, writes, hits, db0, hooked, prev>>
  /\ UNCHANGED <<env, last, pure>>

NextLife ==
  \/ Construct
  \/ \E a \in CachedAttrs : GetattrMissing(a)
  \/ \E a \in CachedAttrs : \E reqs \in SeqsUpTo(FullInstance(a), MaxBatch) : Call(a, reqs)
  \/ Lookup
  \/ LmCall
  \/ \E a \in CachedAttrs : \E args \in CoreArgs(a) : \E r \in RecVals :
       (pc = "unwrapped" \/ a = attr) /\ AddPartial(a, args, r)
  \/ \E r \in SeqsUpTo(LmVals, MaxBatch) : LmReturn(r)
  \/ LmRaise
  \/ Merge
  \/ Commit
  \/ Return
  \/ Exit

SpecLife == InitLife /\ [][NextLife]_vars

(***************************************************************************)
(* The rolling-window scorer behind loglikelihood_rolling (lines 59-97).   *)
(* The conceptual input is [boundary_token] + token_sequence: input        *)
(* position 0 is the boundary token and input position j + 1 is token j.   *)
(* A window is its input positions and the token indices it predicts.      *)
(***************************************************************************)

Min(a, b) == IF a < b THEN a ELSE b

\* the sequence a, a + 1, ..., b
Range(a, b) == [i \in 1..(b - a + 1) |-> a + i - 1]

\* mutant: the first window predicts only the tokens it holds as inputs
FirstWindowInner(n, w) ==
  LET first_len == Min(w, n)
  IN [input |-> Range(0, first_len - 1), pred |-> Range(0, first_len - 2)]

\* the first window: the boundary token and the tokens after it up to
\* max_window inputs, every one of which predicts its next token
FirstWindow(n, w) ==
  LET first_len == Min(w, n)
  IN [input |-> Range(0, first_len - 1), pred |-> Range(0, first_len - 1)]

\* mutant: a later window predicts the next token of every input it holds
LaterWindowRescoring(n, w, predicted) ==
  LET pred_len == Min(n - predicted, w)
      window_end == predicted + pred_len
  IN [input |-> Range(window_end - w, window_end - 1),
      pred |-> Range(window_end - w, window_end - 1)]

\* mutant: the final window holds only the tokens that are left
LaterWindowShort(n, w, predicted) ==
  LET pred_len == Min(n - predicted, w)
      window_end == predicted + pred_len
  IN [input |-> Range(predicted, window_end - 1),
      pred |-> Range(predicted, window_end - 1)]

\* a later window: its input is the max_window input positions that end at
\* the new prediction frontier, and it predicts the tokens not yet predicted
LaterWindow(n, w, predicted) ==
  LET pred_len == Min(n - predicted, w)
      window_end == predicted + pred_len
  IN [input |-> Range(window_end - w, window_end - 1),
      pred |-> Range(window_end - pred_len, window_end - 1)]

\* a token sequence and a max_window are given to the scorer
InitRolling ==
  /\ roll \in [n : 0..MaxTokens, max_window : 1..MaxWindow, predicted : {0},
               windows : {<<>>}]
  /\ dbdict = <<>>
  /\ pc = "idle"
  /\ AtRest
  /\ hook_dbdict = None
  /\ lm_has = CachedAttrs
  /\ audit = FALSE
  /\ fp = NoFp
  /\ enc = NoEnc

\* the scorer yields its first window
RollFirst ==
  /\ roll.windows = <<>>
  /\ roll.n > 0
  /\ roll' = [roll EXCEPT !.windows = <<FirstWindow(roll.n, roll.max_window)>>,
                          !.predicted = Min(roll.max_window, roll.n)]
  /\ UNCHANGED <<dbdict, pc, attr, requests, res, remaining_reqs, warned, rem_res,
                 resptr, zipi, trace, lm_args, writes, hits, db0, hooked, prev>>
  /\ UNCHANGED <<env, last, fp, enc>>

\* the scorer yields a later window
RollNext ==
  /\ roll.windows # <<>>
  /\ roll.predicted < roll.n
  /\ LET win == LaterWindow(roll.n, roll.max_window, roll.predicted)
     IN roll' = [roll EXCEPT !.windows = Append(@, win),
                             !.predicted = @ + Len(win.pred)]
  /\ UNCHANGED <<dbdict, pc, attr, requests, res, remaining_reqs, warned, rem_res,
                 resptr, zipi, trace, lm_args, writes, hits, db0, hooked, prev>>
  /\ UNCHANGED <<env, last, fp, enc>>

NextRolling ==
  \/ RollFirst
  \/ RollNext

SpecRolling == InitRolling /\ [][NextRolling]_vars

(***************************************************************************)
(* hash_args at the level of the text it hashes (lines 660-662).  A Python *)
(* str is the sequence of its characters; a payload element is a str or a  *)
(* list of str.  json.dumps writes a str between double quotes with the    *)
(* double quote and the backslash escaped, and a list between brackets     *)
(* with ", " between its items.  sha256 is taken to be collision free, so  *)
(* the digest is the text.                                                 *)
(***************************************************************************)

\* the strings of the exploration: "", a, b, ab, the six characters
\* a", "b  and three strings of quotes and backslashes
Strs ==
  {<<>>, <<"a">>, <<"b">>, <<"a", "b">>,
   <<"a", "\"", ",", " ", "\"", "b">>,
   <<"\"">>, <<"\\">>, <<"\\", "\"">>}

\* a payload element: its type and its strings, one for a str
PyStr(cs) == [t |-> "str", v |-> <<cs>>]
PyList(items) == [t |-> "list", v |-> items]

\* payload elements: every string, and the lists (), (a), (a, b), (ab)
Elems ==
  {PyStr(cs) : cs \in Strs}
    \cup {PyList(<<>>), PyList(<< <<"a">> >>), PyList(<< <<"a">>, <<"b">> >>),
          PyList(<< <<"a", "b">> >>)}

\* operation names
AttrStrs == {<<"a">>, <<"b">>}

\* number of elements of a payload: (context,) or (context, continuation)
PayloadLens == {1, 2}

Payloads == UNION {[1..m -> Elems] : m \in PayloadLens}

\* mutant: the characters are written as they are
EscapeNothing(cs) == cs

\* the body of a JSON string: the double quote and the backslash escaped
RECURSIVE Escape(_)
Escape(cs) ==
  IF cs = <<>> THEN <<>>
  ELSE (IF Head(cs) \in {"\"", "\\"} THEN <<"\\", Head(cs)>> ELSE <<Head(cs)>>)
         \o Escape(Tail(cs))

DumpsStr(cs) == <<"\"">> \o Escape(cs) \o <<"\"">>

\* the texts joined with ", " between them
RECURSIVE Join(_)
Join(texts) ==
  IF texts = <<>> THEN <<>>
  ELSE IF Len(texts) = 1 THEN texts[1]
  ELSE texts[1] \o <<",", " ">> \o Join(Tail(texts))

\* json.dumps of one payload element
Dumps(e) ==
  IF e.t = "str"
  THEN DumpsStr(e.v[1])
  ELSE <<"[">> \o Join([i \in 1..Len(e.v) |-> DumpsStr(e.v[i])]) \o <<"]">>

\* json.dumps([attr] + list(args)), the text hash_args digests
json_dumps(a, args) ==
  <<"[">> \o Join(<<DumpsStr(a)>> \o [i \in 1..Len(args) |-> Dumps(args[i])]) \o <<"]">>

\* two requests to fingerprint are given
InitHash ==
  /\ fp \in [set : {FALSE}, attr1 : AttrStrs, args1 : Payloads,
              attr2 : AttrStrs, args2 : Payloads, d1 : {<<>>}, d2 : {<<>>}]
  /\ dbdict = <<>>
  /\ pc = "idle"
  /\ AtRest
  /\ hook_dbdict = None
  /\ lm_has = CachedAttrs
  /\ audit = FALSE
  /\ roll = NoRoll
  /\ enc = NoEnc

\* hash_args is applied to both
HashBoth ==
  /\ ~fp.set
  /\ fp' = [fp EXCEPT !.set = TRUE,
                      !.d1 = json_dumps(fp.attr1, fp.args1),
                      !.d2 = json_dumps(fp.attr2, fp.args2)]
  /\ UNCHANGED <<dbdict, pc, attr, requests, res, remaining_reqs, warned, rem_res,
                 resptr, zipi, trace, lm_args, writes, hits, db0, hooked, prev>>
  /\ UNCHANGED <<env, last, roll, enc>>

\* hash_args is applied again to the first
HashAgain ==
  /\ fp.set
  /\ fp' = [fp EXCEPT !.d2 = json_dumps(fp.attr1, fp.args1),
                      !.attr2 = fp.attr1, !.args2 = fp.args1]
  /\ UNCHANGED <<dbdict, pc, attr, requests, res, remaining_reqs, warned, rem_res,
                 resptr, zipi, trace, lm_args, writes, hits, db0, hooked, prev>>
  /\ UNCHANGED <<env, last, roll, enc>>

NextHash ==
  \/ HashBoth
  \/ HashAgain

SpecHash == InitHash /\ [][NextHash]_vars

(***************************************************************************)
(* TemplateLM._encode_pair (lines 784-802).  A str is the sequence of its  *)
(* characters and a token is the sequence of the characters it stands for. *)
(* tok_encode is abstract (line 777): the tokenizer is an input, here a    *)
(* longest-match tokenizer over a vocabulary that holds every character,   *)
(* with or without a special first token.                                  *)
(***************************************************************************)

EncChars == {"a", "b", " ", "\n"}

\* the characters str.rstrip() strips, among EncChars
Whitespace == {" ", "\n"}

EncStrs == UNION {[1..m -> EncChars] : m \in 0..MaxStrLen}

\* the value of AUTO_MODEL_CLASS, None when the attribute is missing
ModelClasses == {"AutoModelForSeq2SeqLM", "AutoModelForCausalLM", None}

CharVocab == {<<c>> : c \in EncChars}

\* a vocabulary with a word-initial token " a" and a token "abb"
MergeVocab == CharVocab \cup {<<" ", "a">>, <<"a", "b", "b">>}

Tokenizers == {[vocab |-> CharVocab, bos |-> FALSE], [vocab |-> MergeVocab, bos |-> TRUE]}

\* the special first token
BosToken == <<"<s>">>

\* mutant: only the last character is stripped
RstripOne(cs) ==
  IF cs # <<>> /\ cs[Len(cs)] \in Whitespace THEN SubSeq(cs, 1, Len(cs) - 1) ELSE cs

\* str.rstrip()
RECURSIVE Rstrip(_)
Rstrip(cs) ==
  IF cs # <<>> /\ cs[Len(cs)] \in Whitespace
  THEN Rstrip(SubSeq(cs, 1, Len(cs) - 1))
  ELSE cs

\* the tokens of cs: at each point the longest token of the vocabulary
RECURSIVE LongestMatch(_, _)
LongestMatch(vocab, cs) ==
  IF cs = <<>> THEN <<>>
  ELSE LET fits == {k \in 1..Len(cs) : SubSeq(cs, 1, k) \in vocab}
           k == CHOOSE j \in fits : \A i \in fits : i <= j
       IN <<SubSeq(cs, 1, k)>> \o LongestMatch(vocab, SubSeq(cs, k + 1, Len(cs)))

\* self.tok_encode(string, add_special_tokens=special)
tok_encode(tk, cs, special) ==
  (IF special /\ tk.bos THEN <<BosToken>> ELSE <<>>) \o LongestMatch(tk.vocab, cs)

\* mutant: the slice starts one token early
SliceFromEarly(seq, k) ==
  IF k - 1 >= Len(seq) THEN <<>> ELSE SubSeq(seq, (IF k = 0 THEN 1 ELSE k), Len(seq))

\* seq[k:] for k >= 0
SliceFrom(seq, k) == IF k >= Len(seq) THEN <<>> ELSE SubSeq(seq, k + 1, Len(seq))

\* lines 785-788: the trailing whitespace of context moves to continuation
MoveSpaces(context, continuation) ==
  LET n_spaces == Len(context) - Len(Rstrip(context))
  IN IF n_spaces > 0
     THEN [continuation |-> SubSeq(context, Len(context) - n_spaces + 1, Len(context))
                              \o continuation,
           context |-> SubSeq(context, 1, Len(context) - n_spaces)]
     ELSE [continuation |-> continuation, context |-> context]

\* _encode_pair(context, continuation) for a model class and a tokenizer
\* (lines 784-802), with the strings it encoded
encode_pair(model_class, tk, context, continuation) ==
  LET moved == MoveSpaces(context, continuation)
  IN IF model_class = "AutoModelForSeq2SeqLM"
     THEN [context |-> moved.context, continuation |-> moved.continuation,
           context_enc |-> tok_encode(tk, moved.context, TRUE),
           continuation_enc |-> tok_encode(tk, moved.continuation, FALSE)]
     ELSE LET whole_enc == tok_encode(tk, moved.context \o moved.continuation, TRUE)
              context_enc == tok_encode(tk, moved.context, TRUE)
              context_enc_len == Len(context_enc)
          IN [context |-> moved.context, continuation |-> moved.continuation,
              context_enc |-> context_enc,
              continuation_enc |-> SliceFrom(whole_enc, context_enc_len)]

\* a TemplateLM of some model class and tokenizer is given a pair to encode
InitEncode ==
  /\ enc \in [done : {FALSE}, model_class : ModelClasses, tk : Tokenizers,
               context : EncStrs, continuation : EncStrs]
  /\ dbdict = <<>>
  /\ pc = "idle"
  /\ AtRest
  /\ hook_dbdict = None
  /\ lm_has = CachedAttrs
  /\ audit = FALSE
  /\ roll = NoRoll
  /\ fp = NoFp

\* _encode_pair returns
EncodePair ==
  /\ ~enc.done
  /\ enc' = [done |-> TRUE, model_class |-> enc.model_class, tk |-> enc.tk,
             context |-> enc.context, continuation |-> enc.continuation,
             out |-> encode_pair(enc.model_class, enc.tk, enc.context, enc.continuation)]
  /\ UNCHANGED <<dbdict, pc, attr, requests, res, remaining_reqs, warned, rem_res,
                 resptr, zipi, trace, lm_args, writes, hits, db0, hooked, prev>>
  /\ UNCHANGED <<env, last, roll, fp>>

NextEncode == EncodePair

SpecEncode == InitEncode /\ [][NextEncode]_vars

(***************************************************************************)
(* Vocabulary of the properties.  These definitions restate the terms of   *)
(* the specification independently of the operators the actions use.       *)
(***************************************************************************)

\* a generate_until request whose generation arguments set do_sample truthy
Flagged(a, req) ==
  /\ a = "generate_until"
  /\ "do_sample" \in DOMAIN req.args[2]
  /\ req.args[2]["do_sample"] = TRUE

\* the fingerprint of the i-th request of the batch
KeyOf(i) == <<attr>> \o requests[i].args

\* the i-th request is a cache hit: cacheable, and its fingerprint was in
\* the store when the call looked it up
IsHit(i) == ~Flagged(attr, requests[i]) /\ KeyOf(i) \in DOMAIN db0

\* the requests the backend is expected to receive, in batch order
ExpectedMisses ==
  SelectSeq(requests, LAMBDA q : Flagged(attr, q) \/ (<<attr>> \o q.args) \notin DOMAIN db0)

\* batch[i] is the Rank(i)-th request that is not a hit
Rank(i) == Cardinality({j \in 1..i : ~IsHit(j)})

Returned == pc = "returned"

TypeOK ==
  /\ pc \in {"unwrapped", "idle", "lookup", "in_lm", "merge", "commit_done",
            "returned", "failed"}
  /\ Len(res) <= Len(requests)
  /\ DOMAIN dbdict \subseteq Keys

\* C1: order preservation.  When a batch call returns, results[i] is the
\* stored value of batch[i]'s fingerprint if batch[i] was a hit, and otherwise
\* the backend result at position k, batch[i] being the k-th request passed
\* to the backend.
C1_OrderPreserved ==
  Returned =>
    /\ Len(res) = Len(requests)
    /\ \A i \in 1..Len(requests) :
         IF IsHit(i) THEN res[i] = db0[KeyOf(i)]
                     ELSE res[i] = rem_res[Rank(i)]

\* C2: when a batch call returns, the result has one slot per request and no
\* slot still holds the unfilled marker None.
C2_AllSlotsFilled ==
  Returned =>
    /\ Len(res) = Len(requests)
    /\ \A i \in 1..Len(res) : res[i] # None

\* C3: the backend is invoked with exactly the requests that are sampling
\* requests or whose fingerprint was absent at lookup, in batch order; no
\* request answered from the cache is among them.
C3_BackendGetsMisses ==
  \A k \in 1..Len(lm_args) :
    /\ lm_args[k] = ExpectedMisses
    /\ Len(lm_args[k]) + Cardinality(hits) = Len(requests)

\* C3 witness: a returned call over a batch mixing a hit and a miss
C3_Witness ==
  /\ Returned
  /\ Len(requests) >= 2
  /\ hits # {}
  /\ lm_args # <<>> /\ lm_args[1] # <<>>

\* C4 as stated: the same batch issued twice against a store that holds
\* every fingerprint of the batch returns the same results the second time
\* and the second call performs no invocation of the backend.
C4_NoInvocationOnRepeat ==
  (Returned /\ prev.set) => (res = prev.res /\ Len(lm_args) = 0)

\* C4 amended: for a batch without sampling request, answered from the store
\* alone the first time and not overwritten by the backend's hook, the second
\* call returns the same results and passes no request to the backend; the
\* backend operation is still invoked once, with an empty list.
C4_IdempotentEmptyInvocation ==
  (Returned /\ prev.set /\ \A i \in 1..Len(requests) : ~Flagged(attr, requests[i])) =>
    /\ res = prev.res
    /\ lm_args = << <<>> >>
    /\ writes = <<>>

\* C4 witness: a repeated call over two requests has returned
C4_Witness == Returned /\ prev.set /\ Len(requests) >= 2 /\ res = prev.res

\* C5: a sampling generate_until request is never answered from the store,
\* even when its fingerprint is present, and every sampling request of the
\* batch is passed to the backend (two identical ones both are).
C5_SamplingBypassesCache ==
  /\ \A i \in hits : ~Flagged(attr, requests[i])
  /\ \A k \in 1..Len(lm_args) :
       SelectSeq(lm_args[k], LAMBDA q : Flagged(attr, q))
         = SelectSeq(requests, LAMBDA q : Flagged(attr, q))

\* C5 witness: two identical sampling requests whose fingerprint was stored
\* have both been passed to the backend
C5_Witness ==
  /\ Returned
  /\ Len(requests) = 2
  /\ \A i \in 1..2 : Flagged(attr, requests[i]) /\ KeyOf(i) \in DOMAIN db0
  /\ lm_args = <<requests>>

\* C6: a batch call writes to the store only results of cacheable misses;
\* the result of a sampling request is never written.
C6_NoSamplingWrite ==
  \A k \in 1..Len(writes) : ~Flagged(attr, writes[k].req)

\* C7: a batch call invokes the backend operation at most once.
C7_AtMostOneInvocation == Len(lm_args) <= 1

\* C7 witness: a call with two misses returned after one invocation
C7_Witness == Returned /\ Len(remaining_reqs) = 2 /\ Len(lm_args) = 1

\* C8: after a batch call of cacheable requests returns, the store holds the
\* fingerprint of every request; a hit is returned with its pre-seeded value
\* and a miss with the backend's result for it.
C8_EndToEnd ==
  (Returned /\ \A i \in 1..Len(requests) : ~Flagged(attr, requests[i])) =>
    /\ Len(res) = Len(requests)
    /\ \A i \in 1..Len(requests) :
         /\ KeyOf(i) \in DOMAIN dbdict
         /\ IsHit(i) => res[i] = db0[KeyOf(i)]
         /\ ~IsHit(i) => res[i] = rem_res[Rank(i)]

\* C9: a key present in the store is never removed, by a batch call or by a
\* cache hook record.
C9_StoreGrows == [][DOMAIN dbdict \subseteq DOMAIN dbdict']_vars

\* C9 witness: a call has returned after the facade and the hook added keys
\* to a store that was not empty
C9_Witness ==
  /\ Returned
  /\ hooked
  /\ writes # <<>>
  /\ db0 # <<>>
  /\ Cardinality(DOMAIN dbdict) >= Cardinality(DOMAIN db0) + 2

\* the number of e events in the trace of the current call
Count(e) == Cardinality({k \in 1..Len(trace) : trace[k] = e})

\* C10: a batch call that returns has called commit() exactly once, after
\* all its store writes and before returning.
C10_CommitOnceAtEnd ==
  Returned =>
    /\ Count("commit") = 1
    /\ Len(trace) >= 2
    /\ trace[Len(trace)] = "return"
    /\ trace[Len(trace) - 1] = "commit"

\* C10 witness: a returned call that served a hit and wrote a miss
C10_Witness == Returned /\ writes # <<>> /\ hits # {}

\* the i-th request is cacheable and the store held None under its
\* fingerprint when the call started
StoredNone(i) ==
  /\ ~Flagged(attr, requests[i])
  /\ KeyOf(i) \in DOMAIN db0
  /\ db0[KeyOf(i)] = None

\* the call was left by the exception e
FailedBy(e) == pc = "failed" /\ trace # <<>> /\ trace[Len(trace)] = e

\* C11: a stored None under the fingerprint of a cacheable request of the
\* batch is fatal: the call never gets past the lookup of that request, it
\* ends by AssertionError, returns nothing, does not invoke the backend and
\* writes nothing to the store.
C11_StoredNoneIsFatal ==
  \A i \in 1..Len(requests) :
    StoredNone(i) =>
      /\ pc \in {"lookup", "failed"}
      /\ Len(res) < i
      /\ pc = "failed" => FailedBy("AssertionError")
      /\ lm_args = <<>>
      /\ writes = <<>>
      /\ dbdict = db0

\* C11 witness: the call failed on a stored None after it had served a hit
C11_Witness ==
  /\ FailedBy("AssertionError")
  /\ hits # {}
  /\ Len(res) + 1 \in 1..Len(requests)
  /\ StoredNone(Len(res) + 1)

\* the requests of the batch the lookup loop has reached, the one it failed
\* on included
Looked ==
  1..(IF FailedBy("AssertionError") THEN Len(res) + 1 ELSE Len(res))

\* the i-th request was passed to the backend
Passed(i) == \E k \in 1..Len(lm_args) : \E j \in 1..Len(lm_args[k]) : lm_args[k][j] = requests[i]

\* the latest write to the store was made by w during an earlier call, was
\* not overwritten since, and is under the fingerprint of the i-th request
ServedBy(w, i) ==
  /\ last.set /\ last.old /\ last.by = w
  /\ ~Flagged(attr, requests[i])
  /\ KeyOf(i) = last.key

\* C12: the cache key depends only on (operation, payload).  Once the facade
\* has computed and stored the result of a request, a later request with the
\* same operation and args but another doc and idx is served that result
\* from the store and is not passed to the backend.
C12_SameArgsServed ==
  \A i \in Looked :
    (ServedBy("fn", i) /\ requests[i].doc # last.doc) =>
      /\ i \in hits
      /\ res[i] = last.val
      /\ ~Passed(i)

\* C13: while the LM holds the null cache hook, a record through the hook
\* changes no store and raises nothing, whatever its arguments.
C13_NullHookNoOp ==
  [][hook_dbdict = None => (dbdict' = dbdict /\ pc' \in {"unwrapped", "idle"})]_vars

\* C13 witness: the LM has recorded through the null hook beside a store
\* that holds entries, before any CachingLM was constructed
C13_Witness ==
  /\ pc = "unwrapped"
  /\ hook_dbdict = None
  /\ hooked
  /\ dbdict # <<>>

\* C16: an operation the backend does not implement, asked of the facade,
\* ends by an exception: nothing is returned, the backend is not invoked
\* and the store is not modified.
C16_MissingOperationRaises ==
  (pc \notin {"unwrapped", "idle"} /\ attr \notin lm_has) =>
    /\ FailedBy("AttributeError")
    /\ res = <<>>
    /\ lm_args = <<>>
    /\ writes = <<>>
    /\ dbdict = db0

\* C16 witness: loglikelihood_rolling was asked of a facade whose backend
\* lacks it, beside a store that holds entries
C16_Witness ==
  /\ FailedBy("AttributeError")
  /\ attr = "loglikelihood_rolling"
  /\ dbdict # <<>>

\* C20: after the CachingLM is constructed the LM's hook is the active one,
\* and a result the LM recorded through it is returned as a cache hit by a
\* later call of the operation for a non-sampling request with args equal
\* to the payload, the request not being passed to the backend.
C20_HookRecordServed ==
  /\ pc # "unwrapped" => hook_dbdict = "dbdict"
  /\ \A i \in Looked :
       ServedBy("hook", i) =>
         /\ i \in hits
         /\ res[i] = last.val
         /\ ~Passed(i)

\* C18: within one batch call each result slot is assigned once.  The k-th
\* backend result is written into the k-th slot the lookup left unfilled,
\* which is not the slot of a hit and not a slot an earlier backend result
\* was written into, whatever values the backend returns.
C18_EachSlotOnce ==
  /\ ~FailedBy("IndexError")
  /\ \A k \in 1..Len(writes) :
       LET p == writes[k].slot
       IN /\ p \notin hits
          /\ ~IsHit(p)
          /\ Rank(p) = k
          /\ \A j \in 1..(k - 1) : writes[j].slot # p

\* C19: no write of the facade puts None into the store.
C19_NoNoneWritten ==
  \A k \in 1..Len(writes) :
    /\ writes[k].r # None
    /\ dbdict[writes[k].hsh] # None

\* the token indices the k-th window predicts
PredSet(k) == {roll.windows[k].pred[j] : j \in 1..Len(roll.windows[k].pred)}

\* the scorer has yielded its last window
RollDone == roll.predicted >= roll.n

\* C14: the windows predict every token exactly once: the sets of token
\* indices they predict are pairwise disjoint, none holds an index twice,
\* and together they are the indices predicted so far, all the indices of
\* the token sequence once the scorer is done.
C14_WindowsPartitionTokens ==
  LET nw == Len(roll.windows)
  IN /\ \A k \in 1..nw : Cardinality(PredSet(k)) = Len(roll.windows[k].pred)
     /\ \A k \in 1..nw : PredSet(k) # {}
     /\ \A k \in 1..nw : \A m \in 1..nw : k # m => PredSet(k) \cap PredSet(m) = {}
     /\ UNION {PredSet(k) : k \in 1..nw} = 0..(roll.predicted - 1)
     /\ RollDone => roll.predicted = roll.n

\* C14 witness: ten tokens under max_window 4 are scored and the windows
\* partition {0..9}
C14_Witness ==
  /\ roll.n = 10
  /\ roll.max_window = 4
  /\ RollDone
  /\ UNION {PredSet(k) : k \in 1..Len(roll.windows)} = 0..9

\* C15: when the tokens are split into several windows, every window, the
\* final one included, has an input of exactly max_window tokens, even when
\* it predicts fewer, and it predicts no token an earlier window predicted;
\* ten tokens under max_window 4 give exactly 3 windows.
C15_FinalWindowFull ==
  LET nw == Len(roll.windows)
  IN /\ nw >= 2 =>
          /\ Len(roll.windows[nw].input) = roll.max_window
          /\ Len(roll.windows[nw].pred) <= roll.max_window
          /\ \A k \in 1..(nw - 1) : PredSet(k) \cap PredSet(nw) = {}
     /\ (RollDone /\ roll.n = 10 /\ roll.max_window = 4) =>
          /\ nw = 3
          /\ Len(roll.windows[nw].input) = 4

\* C15 witness: the third and final window of ten tokens under max_window 4
\* has four inputs and predicts two tokens
C15_Witness ==
  /\ roll.n = 10
  /\ roll.max_window = 4
  /\ RollDone
  /\ Len(roll.windows) = 3
  /\ Len(roll.windows[3].input) = 4
  /\ Len(roll.windows[3].pred) = 2

NoSampling == \A i \in 1..Len(requests) : ~Flagged(attr, requests[i])

\* C21: in a batch call of non-sampling requests every key the facade
\* writes was absent from the store when the call started, so, unless the
\* backend used its cache hook, every entry present at the start still has
\* its value at every later point of the call.
C21_WritesOnlyAbsentKeys ==
  NoSampling =>
    /\ \A k \in 1..Len(writes) : writes[k].hsh \notin DOMAIN db0
    /\ ~hooked => \A key \in DOMAIN db0 : key \in DOMAIN dbdict /\ dbdict[key] = db0[key]

\* C21 witness: a call over a hit and a miss has returned, the miss written
\* beside entries that were there before
C21_Witness ==
  /\ Returned
  /\ NoSampling
  /\ ~hooked
  /\ hits # {}
  /\ writes # <<>>
  /\ Cardinality(DOMAIN db0) >= 2

\* C22: when the backend operation fails, the call ends with the backend's
\* exception after exactly one invocation, the facade has written nothing
\* to the store and has not committed, and what the backend recorded through
\* the cache hook before it failed is in the store.
C22_BackendFailurePropagates ==
  FailedBy("LmError") =>
    /\ Len(lm_args) = 1
    /\ Count("lm") = 1
    /\ Count("LmError") = 1
    /\ writes = <<>>
    /\ Count("set") = 0
    /\ Count("commit") = 0
    /\ ~hooked => dbdict = db0
    /\ (last.set /\ ~last.old) =>
         /\ last.by = "hook"
         /\ last.key \in DOMAIN dbdict
         /\ dbdict[last.key] = last.val

\* C22 witness: the backend failed after it had recorded a result under a
\* key that was not in the store
C22_Witness ==
  /\ FailedBy("LmError")
  /\ hooked
  /\ last.set /\ ~last.old /\ last.by = "hook"
  /\ last.key \notin DOMAIN db0
  /\ last.key \in DOMAIN dbdict

\* the sampling requests among those the lookup loop has gone through
SamplingSeen == {i \in 1..Len(res) : Flagged(attr, requests[i])}

\* C23: the advisory is logged exactly once in a generate_until call whose
\* batch holds a sampling request, when the lookup reaches the first one
\* and so before any other event of the call, and it is never logged in a call
\* without sampling request or in a loglikelihood or loglikelihood_rolling
\* call.
C23_AdvisoryOncePerBatch ==
  /\ Count("warning") = (IF SamplingSeen # {} THEN 1 ELSE 0)
  /\ Count("warning") = 1 => (attr = "generate_until" /\ trace[1] = "warning")
  /\ warned <=> SamplingSeen # {}

\* C23 witness: a generate_until call over two sampling requests has
\* returned with one advisory logged
C23_Witness ==
  /\ Returned
  /\ attr = "generate_until"
  /\ Cardinality(SamplingSeen) = 2
  /\ Count("warning") = 1

\* the positions in [boundary_token] + token_sequence of the tokens the
\* k-th window predicts: token j is at position j + 1
PredPositions(k) == {j + 1 : j \in PredSet(k)}

\* the input of the k-th window, k > 1, is the max_window positions that end
\* at the input of its last prediction, and it predicts nothing an earlier
\* window predicted
LaterWindowsOk ==
  \A k \in 2..Len(roll.windows) :
    LET win == roll.windows[k]
        front == win.pred[Len(win.pred)]
    IN /\ win.input = [i \in 1..roll.max_window |-> front - roll.max_window + i]
       /\ \A m \in 1..(k - 1) : PredSet(m) \cap PredSet(k) = {}

\* C24 as stated: the first window takes input positions [0, max_window)
\* and predicts positions [1, max_window); each later window takes the most
\* recent max_window inputs and predicts only tokens not predicted before.
C24_FirstWindowAsStated ==
  /\ (roll.windows # <<>> /\ roll.n >= roll.max_window) =>
       /\ roll.windows[1].input = [i \in 1..roll.max_window |-> i - 1]
       /\ PredPositions(1) = 1..(roll.max_window - 1)
  /\ LaterWindowsOk

\* C24 amended: the first window takes input positions [0, m) and predicts
\* positions [1, m], m being max_window or the length of the token sequence
\* when that is shorter: every input of the window predicts its next token.
\* Later windows are as stated.
C24_FirstWindowPredictsAll ==
  /\ roll.windows # <<>> =>
       LET m == IF roll.n < roll.max_window THEN roll.n ELSE roll.max_window
       IN /\ roll.windows[1].input = [i \in 1..m |-> i - 1]
          /\ PredPositions(1) = 1..m
          /\ Len(roll.windows[1].pred) = m
  /\ LaterWindowsOk

\* C24 witness: ten tokens under max_window 4, the first window predicts
\* positions 1..4 and a later window has been yielded
C24_Witness ==
  /\ roll.n = 10
  /\ roll.max_window = 4
  /\ Len(roll.windows) >= 2
  /\ PredPositions(1) = 1..4

\* the length of the run of whitespace that ends cs
TrailingRun(cs) ==
  CHOOSE k \in 0..Len(cs) :
    /\ \A i \in (Len(cs) - k + 1)..Len(cs) : cs[i] \in Whitespace
    /\ k < Len(cs) => cs[Len(cs) - k] \notin Whitespace

\* C25: the context _encode_pair encodes ends with no whitespace, the
\* continuation it encodes is the whole trailing whitespace run of the
\* given context followed by the given continuation, and context +
\* continuation is unchanged; a context of whitespace alone becomes empty.
C25_WhitespaceMoved ==
  enc.done =>
    LET n == TrailingRun(enc.context)
        len == Len(enc.context)
    IN /\ enc.out.context = SubSeq(enc.context, 1, len - n)
       /\ enc.out.context # <<>> => enc.out.context[len - n] \notin Whitespace
       /\ enc.out.continuation = SubSeq(enc.context, len - n + 1, len) \o enc.continuation
       /\ enc.out.context \o enc.out.continuation = enc.context \o enc.continuation
       /\ n = len => enc.out.context = <<>>

\* C25 witness: a context of two whitespace characters was encoded as the
\* empty context, both characters heading the continuation
C25_Witness ==
  /\ enc.done
  /\ Len(enc.context) = 2
  /\ TrailingRun(enc.context) = 2
  /\ enc.continuation # <<>>
  /\ enc.out.context = <<>>
  /\ Len(enc.out.continuation) = Len(enc.continuation) + 2

\* the model class takes the encoder-decoder branch of line 792
IsSeq2Seq == enc.model_class = "AutoModelForSeq2SeqLM"

\* the encoding of the context alone and the joint encoding of the strings
\* _encode_pair encoded
ContextAlone == tok_encode(enc.tk, enc.out.context, TRUE)
Joint == tok_encode(enc.tk, enc.out.context \o enc.out.continuation, TRUE)

\* the continuation tokens are the joint encoding from index
\* len(encode(context)) on
IsJointSuffix ==
  /\ enc.out.context_enc = ContextAlone
  /\ \A i \in 1..Len(enc.out.continuation_enc) :
       /\ Len(ContextAlone) + i <= Len(Joint)
       /\ enc.out.continuation_enc[i] = Joint[Len(ContextAlone) + i]
  /\ Len(enc.out.continuation_enc) >= Len(Joint) - Len(ContextAlone)

\* context and continuation are encoded each on its own, the continuation
\* without special tokens
IsIndependent ==
  /\ enc.out.context_enc = ContextAlone
  /\ enc.out.continuation_enc = LongestMatch(enc.tk.vocab, enc.out.continuation)
  /\ \A i \in 1..Len(enc.out.continuation_enc) : enc.out.continuation_enc[i] # BosToken

\* C26 as stated: for a decoder-only backend the continuation tokens are
\* the suffix of the joint encoding from index len(encode(context)), and
\* the lengths of context tokens and continuation tokens add up to the
\* length of the joint encoding; for an encoder-decoder backend both are
\* encoded independently, the continuation without special tokens.
C26_EncodingByFamily ==
  enc.done =>
    IF IsSeq2Seq
    THEN IsIndependent
    ELSE /\ IsJointSuffix
         /\ Len(enc.out.context_enc) + Len(enc.out.continuation_enc) = Len(Joint)

\* C26 amended: as stated, but the lengths add up only when the joint
\* encoding is not shorter than the encoding of the context alone;
\* otherwise the continuation tokens are empty.
C26_EncodingByFamilyAmended ==
  enc.done =>
    IF IsSeq2Seq
    THEN IsIndependent
    ELSE /\ IsJointSuffix
         /\ IF Len(ContextAlone) <= Len(Joint)
            THEN Len(enc.out.context_enc) + Len(enc.out.continuation_enc) = Len(Joint)
            ELSE enc.out.continuation_enc = <<>>

\* C26 witness: a decoder-only backend whose tokenizer joins the end of the
\* context and the start of the continuation in one token has encoded a
\* pair, the continuation tokens being a proper suffix of the joint encoding
C26_Witness ==
  /\ enc.done
  /\ ~IsSeq2Seq
  /\ enc.tk.bos
  /\ enc.out.continuation_enc # <<>>
  /\ Len(enc.out.context_enc) >= 2
  /\ Len(Joint) < Len(enc.out.context) + Len(enc.out.continuation) + 1
====
